---- MODULE Spec2Model ----
(***************************************************************************)
(* Subscription renewal service (app/main.py, app/subs_db.py,              *)
(* app/db_utils.py, app/ns.py).                                            *)
(*                                                                         *)
(* Time: a datetime is a number of milliseconds since the service was      *)
(* built; a timestamp string "%Y-%m-%d %H:%M:%S" is the number of whole    *)
(* seconds it denotes (its lexicographic order is the order of these       *)
(* numbers).  Tokens are numbers; None is 0.                               *)
(***************************************************************************)
EXTENDS Integers, Sequences, FiniteSets, TLC

\* ---------------------------------------------------------------- bounds
NumSubs == 2
NumDomains == 2
MaxCycles == 2
MaxTicks == 1
\* creation requests the service receives
MaxRequests == 1

\* ------------------------------------------------------- program constants
\* Config.RENEWAL_INTERVAL, seconds (default)
RENEWAL_INTERVAL == 3600
\* Config.SUBSCRIPTION_DURATION = timedelta(days=1), in seconds
SUBSCRIPTION_DURATION == 86400
\* Config.TIME_BEFORE_EXPIRATION, seconds
TIME_BEFORE_EXPIRATION == 300

\* Python's None, a NULL column: no timestamp, token or id has this value
None == -1

SubIds == 1..NumSubs
Domains == 1..NumDomains

\* Stored expiries at construction: long expired, inside the next interval's
\* window only at the second cycle, and granted by the platform beyond one
\* SUBSCRIPTION_DURATION.
InitExpires == {0, 2 * RENEWAL_INTERVAL, SUBSCRIPTION_DURATION + 4 * RENEWAL_INTERVAL}

\* What one await may take, in milliseconds: a fraction of a second, or as
\* long as a whole renewal interval.
Latencies == {600, RENEWAL_INTERVAL * 1000}

VARIABLES
    clock,            \* datetime.now(timezone.utc), milliseconds
    ticks,            \* how often time has advanced inside cycles
    table,            \* the subscriptions table: subscription_id -> row
    remote_expires,   \* the platform's expiry of each subscription
    next_token,       \* the next token pair the platform issues
    loop,             \* where SubscriptionService.start is
    running,          \* check_and_update_subscriptions coroutines in flight
    cycle_no,         \* cycles begun so far
    pc,               \* where check_and_update_subscriptions is
    renewal_threshold_str,   \* fetch_expiring_subscriptions' threshold
    subscriptions,    \* the scan's result (subscription ids)
    expiring_domain,  \* list of the unique candidate domains
    dom_idx,          \* index of the domain being renewed (for sub in ...)
    new_expire,       \* the cycle's new expiry string
    renewal_now,      \* the clock reading new_expire was computed from
    expiring_subs,    \* rows read for the current domain
    sub_idx,          \* index of the row being renewed (for sublist in ...)
    new_oauth_token,
    new_refresh_token,
    refresh_calls,    \* this cycle: refresh_access_token calls per domain
    refresh_sent,     \* this cycle: the refresh_token sent per domain
    pushed,           \* this cycle: the update_subscription calls the platform accepted
    written,          \* this cycle: subscription_ids whose row was committed
    pre_table,        \* the table when the cycle began
    failed,           \* this cycle: the call that raised
    scan_now,         \* the clock reading the scan's threshold was computed from
    pre_remote,       \* the platform's expiries when the cycle began
    call_log,         \* this cycle: the remote calls and store commits, in order
    requests,         \* creation requests received so far
    create_pc,        \* where setup_new_subscription is
    request,          \* the SubscriptionRequest being served
    token_dict,       \* get_token's result
    subscription_response,   \* create_subscription's result
    create_calls,     \* this request: the calls setup_new_subscription made, in order
    create_failed,    \* this request: what raised
    remote_subs,      \* the subscriptions that exist on the platform
    confirmed_ids,    \* the subscription_ids create_subscription has returned
    db_op,            \* the call of a persistence helper, or of the scheduled job
    db_pre,           \* the table before that call
    db_result         \* what the call's caller sees, and what its session did

vars == <<clock, ticks, table, remote_expires, next_token, loop, running,
          cycle_no, pc, renewal_threshold_str, subscriptions, expiring_domain,
          dom_idx, new_expire, renewal_now, expiring_subs, sub_idx,
          new_oauth_token, new_refresh_token, refresh_calls, refresh_sent,
          pushed, written, pre_table, failed, scan_now, pre_remote, call_log,
          requests, create_pc, request, token_dict, subscription_response,
          create_calls, create_failed, remote_subs, confirmed_ids,
          db_op, db_pre, db_result>>

cycle_locals == <<renewal_threshold_str, subscriptions, expiring_domain,
                  dom_idx, new_expire, renewal_now, expiring_subs, sub_idx,
                  new_oauth_token, new_refresh_token>>

cycle_log == <<refresh_calls, refresh_sent, pushed, written, pre_table, failed>>

cycle_aux == <<scan_now, pre_remote, call_log>>

create_vars == <<requests, create_pc, request, token_dict, subscription_response,
                 create_calls, create_failed, remote_subs, confirmed_ids>>

store_vars == <<db_op, db_pre, db_result>>

\* ----------------------------------------------------------- pure helpers
\* datetime.strftime("%Y-%m-%d %H:%M:%S"): the sub-second part is dropped
strftime(dt) == dt \div 1000

\* datetime + timedelta(seconds = s)
plus_seconds(dt, s) == dt + s * 1000

\* a list holding the members of S once each, in any order
Orderings(S) ==
    {f \in [1..Cardinality(S) -> S] : \A i, j \in 1..Cardinality(S) : f[i] = f[j] => i = j}

NoFailure == [step |-> "none", domain |-> 0, sub |-> 0]

NoRequest == [domain |-> None, model |-> None, post_url |-> None, user |-> None]
NoTokens == [access_token |-> None, refresh_token |-> None]
NoResponse == [subscription_id |-> None, expires_at |-> None]

\* ------------------------------------------------------------------- Init
Row(sid, dom, exp, tok) ==
    [subscription_id |-> sid, domain |-> dom, expires |-> exp,
     oauth_token |-> tok, refresh_token |-> tok, last_updated |-> 0,
     model |-> 1, post_url |-> sid, user |-> sid]

\* The token pair a stored row holds at construction: the one its domain's
\* rows share, or the one of the password grant that created this row alone.
InitToken(sid, dom, per_session) == IF per_session THEN NumDomains + sid ELSE dom

Init ==
    /\ clock = 0
    /\ ticks = 0
    /\ \E dom \in [SubIds -> Domains], exp \in [SubIds -> InitExpires],
          per_session \in BOOLEAN :
          /\ dom[1] = 1
          /\ table = [s \in SubIds |->
                        Row(s, dom[s], exp[s], InitToken(s, dom[s], per_session))]
          /\ remote_expires = exp
    /\ next_token = NumDomains + NumSubs + 1
    /\ loop = "created"
    /\ running = 0
    /\ cycle_no = 0
    /\ pc = "idle"
    /\ renewal_threshold_str = 0
    /\ subscriptions = {}
    /\ expiring_domain = <<>>
    /\ dom_idx = 0
    /\ new_expire = 0
    /\ renewal_now = 0
    /\ expiring_subs = <<>>
    /\ sub_idx = 0
    /\ new_oauth_token = None
    /\ new_refresh_token = None
    /\ refresh_calls = [d \in Domains |-> 0]
    /\ refresh_sent = [d \in Domains |-> None]
    /\ pushed = {}
    /\ written = {}
    /\ pre_table = table
    /\ failed = NoFailure
    /\ scan_now = 0
    /\ pre_remote = remote_expires
    /\ call_log = <<>>
    /\ requests = 0
    /\ create_pc = "none"
    /\ request = NoRequest
    /\ token_dict = NoTokens
    /\ subscription_response = NoResponse
    /\ create_calls = <<>>
    /\ create_failed = "none"
    /\ remote_subs = SubIds
    /\ confirmed_ids = SubIds
    /\ db_op = [kind |-> "none", fault |-> "none"]
    /\ db_pre = <<>>
    /\ db_result = [status |-> 0, raised |-> "none", session |-> <<>>, logged |-> FALSE]

\* ------------------------------------------------- SubscriptionService.start
\* start that schedules the check instead of awaiting it goes straight back
\* to its sleep
AwaitsCycle_FireAndForget == "sleep"

\* start awaits check_and_update_subscriptions: it is suspended in the call
\* until the cycle returns or raises.
AwaitsCycle == "cycle"

\* An exception leaving check_and_update_subscriptions is caught nowhere in
\* start: it ends the task.
LoopAfterRaise == "crashed"

InFlight == pc \in {"fetch", "read", "refresh", "push", "persist"}

\* The call of check_and_update_subscriptions up to its first await: the
\* threshold of fetch_expiring_subscriptions is computed and the query sent.
EnterCycle ==
    /\ running' = running + 1
    /\ cycle_no' = cycle_no + 1
    /\ pc' = "fetch"
    /\ renewal_threshold_str' = strftime(plus_seconds(clock', RENEWAL_INTERVAL))
    /\ subscriptions' = {}
    /\ expiring_domain' = <<>>
    /\ dom_idx' = 0
    /\ expiring_subs' = <<>>
    /\ sub_idx' = 0
    /\ new_oauth_token' = None
    /\ new_refresh_token' = None
    /\ UNCHANGED <<new_expire, renewal_now>>
    /\ refresh_calls' = [d \in Domains |-> 0]
    /\ refresh_sent' = [d \in Domains |-> None]
    /\ pushed' = {}
    /\ written' = {}
    /\ pre_table' = table
    /\ failed' = NoFailure
    /\ scan_now' = clock'
    /\ pre_remote' = remote_expires
    /\ call_log' = <<>>

\* lifespan creates the task; start logs and awaits setup_table
Start ==
    /\ loop = "created"
    /\ loop' = "setup"
    /\ UNCHANGED <<clock, ticks, table, remote_expires, next_token, running,
                   cycle_no, pc, cycle_locals, cycle_log>>
    /\ UNCHANGED cycle_aux
    /\ UNCHANGED create_vars
    /\ UNCHANGED store_vars

\* setup_table returns and the initial check is called
SetupTable ==
    /\ loop = "setup"
    /\ loop' = AwaitsCycle
    /\ clock' = clock
    /\ EnterCycle
    /\ UNCHANGED <<ticks, table, remote_expires, next_token>>
    /\ UNCHANGED create_vars
    /\ UNCHANGED store_vars

SetupTableRaises ==
    /\ loop = "setup"
    /\ loop' = LoopAfterRaise
    /\ UNCHANGED <<clock, ticks, table, remote_expires, next_token, running,
                   cycle_no, pc, cycle_locals, cycle_log>>
    /\ UNCHANGED cycle_aux
    /\ UNCHANGED create_vars
    /\ UNCHANGED store_vars

\* a loop that task.cancel() does not stop: the sleep of a cancelled task
\* still ends in a check
Sleep_IgnoresCancel ==
    /\ loop \in {"sleep", "cancelled"}
    /\ cycle_no < MaxCycles
    /\ clock' = plus_seconds(clock, RENEWAL_INTERVAL)
    /\ loop' = AwaitsCycle
    /\ EnterCycle
    /\ UNCHANGED <<ticks, table, remote_expires, next_token>>
    /\ UNCHANGED create_vars
    /\ UNCHANGED store_vars

\* asyncio.sleep(renewal_interval) is over and the next check is called
Sleep ==
    /\ loop = "sleep"
    /\ cycle_no < MaxCycles
    /\ clock' = plus_seconds(clock, RENEWAL_INTERVAL)
    /\ loop' = AwaitsCycle
    /\ EnterCycle
    /\ UNCHANGED <<ticks, table, remote_expires, next_token>>
    /\ UNCHANGED create_vars
    /\ UNCHANGED store_vars

\* check_and_update_subscriptions returns to start
Return ==
    /\ pc' = "idle"
    /\ running' = running - 1
    /\ loop' = IF loop = "cycle" THEN "sleep" ELSE loop

\* an exception leaves check_and_update_subscriptions
Raise(step, d, s) ==
    /\ pc' = "raised"
    /\ failed' = [step |-> step, domain |-> d, sub |-> s]
    /\ running' = running - 1
    /\ loop' = IF loop = "cycle" THEN LoopAfterRaise ELSE loop

\* time passes while a cycle awaits
Tick ==
    /\ InFlight
    /\ ticks < MaxTicks
    /\ \E d \in Latencies : clock' = clock + d
    /\ ticks' = ticks + 1
    /\ UNCHANGED <<table, remote_expires, next_token, loop, running, cycle_no,
                   pc, cycle_locals, cycle_log>>
    /\ UNCHANGED cycle_aux
    /\ UNCHANGED create_vars
    /\ UNCHANGED store_vars

\* lifespan's finally: task.cancel()
Shutdown ==
    /\ loop \in {"created", "setup", "cycle", "sleep"}
    /\ loop' = "cancelled"
    /\ pc' = IF InFlight THEN "cancelled" ELSE pc
    /\ running' = IF InFlight THEN running - 1 ELSE running
    /\ UNCHANGED <<clock, ticks, table, remote_expires, next_token, cycle_no,
                   cycle_locals, cycle_log>>
    /\ UNCHANGED cycle_aux
    /\ UNCHANGED create_vars
    /\ UNCHANGED store_vars

\* ------------------------------------------------------------- db_utils.py
\* models.Subscriptions: the nullable=False columns a row must carry for the
\* commit to be accepted
NotNullOk(row) ==
    /\ row.domain # None
    /\ row.expires # None
    /\ row.oauth_token # None
    /\ row.refresh_token # None
    /\ row.model # None
    /\ row.post_url # None
    /\ row.user # None

\* a column mix-up: the access token is also stored in the user column
SetAttrs_AlsoUser(row, update_data) ==
    [row EXCEPT !.expires = update_data.expires,
                !.last_updated = update_data.last_updated,
                !.oauth_token = update_data.oauth_token,
                !.refresh_token = update_data.refresh_token,
                !.user = update_data.oauth_token]

\* update_table's loop "for key, value in update_data.items(): setattr(row, key, value)"
SetAttrs(row, update_data) ==
    [row EXCEPT !.expires = update_data.expires,
                !.last_updated = update_data.last_updated,
                !.oauth_token = update_data.oauth_token,
                !.refresh_token = update_data.refresh_token]

\* update_table(Subscriptions, {"subscription_id": sid}, update_data) inside one
\* session: every matching row is updated; with no match a row built from the
\* filters and update_data alone is added.
Upsert(tbl, sid, update_data) ==
    IF sid \in DOMAIN tbl
    THEN [tbl EXCEPT ![sid] = SetAttrs(tbl[sid], update_data)]
    ELSE [s \in DOMAIN tbl \cup {sid} |->
            IF s = sid
            THEN SetAttrs([subscription_id |-> sid, domain |-> None, expires |-> None,
                           oauth_token |-> None, refresh_token |-> None,
                           last_updated |-> None, model |-> None,
                           post_url |-> None, user |-> None], update_data)
            ELSE tbl[s]]

\* get_session's commit succeeds only if the flushed rows satisfy the schema
CommitAccepted(tbl) == \A s \in DOMAIN tbl : NotNullOk(tbl[s])

\* ------------------------------------------ check_and_update_subscriptions
\* the comparison written as "<": a row expiring exactly at the threshold is missed
ExpiringSubscriptions_Strict(tbl, threshold) ==
    {s \in DOMAIN tbl : tbl[s].expires < threshold}

\* SubscriptionsDB.fetch_expiring_subscriptions: Subscriptions.expires <= threshold
ExpiringSubscriptions(tbl, threshold) ==
    {s \in DOMAIN tbl : tbl[s].expires <= threshold}

\* new_expire = (now + Config.SUBSCRIPTION_DURATION).strftime(...)
NewExpire(now) == strftime(plus_seconds(now, SUBSCRIPTION_DURATION))

\* only the scan's candidates of the domain are loaded
RowsOfDomain_CandidatesOnly(tbl, d) ==
    {tbl[s] : s \in {x \in DOMAIN tbl : tbl[x].domain = d /\ x \in subscriptions}}

\* read_from_table(model=Subscriptions, filters={"domain": d})
RowsOfDomain(tbl, d) == {tbl[s] : s \in {x \in DOMAIN tbl : tbl[x].domain = d}}

CurrentDomain == expiring_domain[dom_idx]
CurrentSub == expiring_subs[sub_idx]

\* every stored domain is renewed, whatever the scan returned
FetchExpiring_AllDomains ==
    /\ pc = "fetch"
    /\ subscriptions' = ExpiringSubscriptions(table, renewal_threshold_str)
    /\ \E order \in Orderings({table[s].domain : s \in DOMAIN table}) :
          expiring_domain' = order
    /\ renewal_now' = clock
    /\ new_expire' = NewExpire(clock)
    /\ dom_idx' = 1
    /\ pc' = "read"
    /\ UNCHANGED <<clock, ticks, table, remote_expires, next_token, cycle_no,
                   renewal_threshold_str, expiring_subs, sub_idx, running, loop,
                   new_oauth_token, new_refresh_token, cycle_log>>
    /\ UNCHANGED cycle_aux
    /\ UNCHANGED create_vars
    /\ UNCHANGED store_vars

\* the query returns: unique domains, the new expiry, the first domain's read
FetchExpiring ==
    /\ pc = "fetch"
    /\ LET subs == ExpiringSubscriptions(table, renewal_threshold_str)
           doms == {table[s].domain : s \in subs}
       IN  /\ subscriptions' = subs
           /\ IF doms = {}
              THEN /\ Return
                   /\ UNCHANGED <<expiring_domain, dom_idx, new_expire, renewal_now>>
              ELSE /\ \E order \in Orderings(doms) : expiring_domain' = order
                   /\ renewal_now' = clock
                   /\ new_expire' = NewExpire(clock)
                   /\ dom_idx' = 1
                   /\ pc' = "read"
                   /\ UNCHANGED <<running, loop>>
    /\ UNCHANGED <<clock, ticks, table, remote_expires, next_token, cycle_no,
                   renewal_threshold_str, expiring_subs, sub_idx,
                   new_oauth_token, new_refresh_token, cycle_log>>
    /\ UNCHANGED cycle_aux
    /\ UNCHANGED create_vars
    /\ UNCHANGED store_vars

FetchExpiringRaises ==
    /\ pc = "fetch"
    /\ Raise("fetch", 0, 0)
    /\ UNCHANGED <<clock, ticks, table, remote_expires, next_token, cycle_no,
                   cycle_locals, refresh_calls, refresh_sent, pushed, written,
                   pre_table>>
    /\ UNCHANGED cycle_aux
    /\ UNCHANGED create_vars
    /\ UNCHANGED store_vars

\* read_from_table returns the domain's rows (in the order the database gives
\* them) and refresh_access_token is called with the first row's refresh_token
ReadDomain ==
    /\ pc = "read"
    /\ LET rows == RowsOfDomain(table, CurrentDomain)
       IN  /\ rows # {}
           /\ \E order \in Orderings(rows) :
                /\ expiring_subs' = order
                /\ refresh_sent' = [refresh_sent EXCEPT ![CurrentDomain] = order[1].refresh_token]
           /\ refresh_calls' = [refresh_calls EXCEPT ![CurrentDomain] = @ + 1]
    /\ pc' = "refresh"
    /\ UNCHANGED <<clock, ticks, table, remote_expires, next_token, loop, running,
                   cycle_no, renewal_threshold_str, subscriptions, expiring_domain,
                   dom_idx, new_expire, renewal_now, sub_idx, new_oauth_token,
                   new_refresh_token, pushed, written, pre_table, failed>>
    /\ call_log' = Append(call_log, [call |-> "refresh", domain |-> CurrentDomain, sub |-> 0])
    /\ UNCHANGED <<scan_now, pre_remote>>
    /\ UNCHANGED create_vars
    /\ UNCHANGED store_vars

\* read_from_table raises, or returns no row (expiring_subs[0]: IndexError)
ReadDomainRaises ==
    /\ pc = "read"
    /\ Raise("read", CurrentDomain, 0)
    /\ UNCHANGED <<clock, ticks, table, remote_expires, next_token, cycle_no,
                   cycle_locals, refresh_calls, refresh_sent, pushed, written,
                   pre_table>>
    /\ UNCHANGED cycle_aux
    /\ UNCHANGED create_vars
    /\ UNCHANGED store_vars

\* refresh_access_token returns the token endpoint's 200 response
\* the check of access_token is missing: the domain is renewed with no token
RefreshToken_NoAccessCheck ==
    /\ pc = "refresh"
    /\ \E has_access \in BOOLEAN, has_refresh \in BOOLEAN :
         /\ has_access \/ ~has_refresh
         /\ new_oauth_token' = IF has_access THEN next_token ELSE None
         /\ new_refresh_token' = IF has_refresh THEN next_token ELSE None
         /\ failed' = IF has_access THEN failed
                      ELSE [step |-> "no_access_token", domain |-> CurrentDomain, sub |-> 0]
    /\ next_token' = next_token + 1
    /\ sub_idx' = 1
    /\ pc' = "push"
    /\ UNCHANGED <<loop, running>>
    /\ UNCHANGED <<clock, ticks, table, remote_expires, cycle_no,
                   renewal_threshold_str, subscriptions, expiring_domain, dom_idx,
                   new_expire, renewal_now, expiring_subs, refresh_calls,
                   refresh_sent, pushed, written, pre_table>>
    /\ UNCHANGED cycle_aux
    /\ UNCHANGED create_vars
    /\ UNCHANGED store_vars

RefreshToken ==
    /\ pc = "refresh"
    /\ \E has_access \in BOOLEAN, has_refresh \in BOOLEAN :
         IF has_access
         THEN /\ new_oauth_token' = next_token
              /\ new_refresh_token' = IF has_refresh THEN next_token ELSE None
              /\ next_token' = next_token + 1
              /\ sub_idx' = 1
              /\ pc' = "push"
              /\ UNCHANGED <<loop, running, failed>>
         ELSE /\ ~has_refresh
              /\ Raise("no_access_token", CurrentDomain, 0)
              /\ UNCHANGED <<new_oauth_token, new_refresh_token, next_token, sub_idx>>
    /\ UNCHANGED <<clock, ticks, table, remote_expires, cycle_no,
                   renewal_threshold_str, subscriptions, expiring_domain, dom_idx,
                   new_expire, renewal_now, expiring_subs, refresh_calls,
                   refresh_sent, pushed, written, pre_table>>
    /\ UNCHANGED cycle_aux
    /\ UNCHANGED create_vars
    /\ UNCHANGED store_vars

\* the refresh error is swallowed and the domain renewed with the stored token
RefreshTokenRaises_Swallowed ==
    /\ pc = "refresh"
    /\ failed' = [step |-> "refresh", domain |-> CurrentDomain, sub |-> 0]
    /\ new_oauth_token' = expiring_subs[1].oauth_token
    /\ new_refresh_token' = expiring_subs[1].refresh_token
    /\ sub_idx' = 1
    /\ pc' = "push"
    /\ UNCHANGED <<clock, ticks, table, remote_expires, next_token, loop, running,
                   cycle_no, renewal_threshold_str, subscriptions, expiring_domain,
                   dom_idx, new_expire, renewal_now, expiring_subs, refresh_calls,
                   refresh_sent, pushed, written, pre_table>>
    /\ UNCHANGED cycle_aux
    /\ UNCHANGED create_vars
    /\ UNCHANGED store_vars

\* refresh_access_token raises (the response status is not 200)
RefreshTokenRaises ==
    /\ pc = "refresh"
    /\ Raise("refresh", CurrentDomain, 0)
    /\ UNCHANGED <<clock, ticks, table, remote_expires, next_token, cycle_no,
                   cycle_locals, refresh_calls, refresh_sent, pushed, written,
                   pre_table>>
    /\ UNCHANGED cycle_aux
    /\ UNCHANGED create_vars
    /\ UNCHANGED store_vars

\* update_subscription: the platform accepts the new expiry (202)
UpdateSubscription ==
    /\ pc = "push"
    /\ remote_expires' = [remote_expires EXCEPT ![CurrentSub.subscription_id] = new_expire]
    /\ pushed' = pushed \cup {[sub |-> CurrentSub.subscription_id,
                               expires |-> new_expire, token |-> new_oauth_token]}
    /\ pc' = "persist"
    /\ UNCHANGED <<clock, ticks, table, next_token, loop, running, cycle_no,
                   cycle_locals, refresh_calls, refresh_sent, written, pre_table,
                   failed>>
    /\ call_log' = Append(call_log, [call |-> "push", domain |-> CurrentDomain,
                                      sub |-> CurrentSub.subscription_id])
    /\ UNCHANGED <<scan_now, pre_remote>>
    /\ UNCHANGED create_vars
    /\ UNCHANGED store_vars

UpdateSubscriptionRaises ==
    /\ pc = "push"
    /\ Raise("push", CurrentDomain, CurrentSub.subscription_id)
    /\ UNCHANGED <<clock, ticks, table, remote_expires, next_token, cycle_no,
                   cycle_locals, refresh_calls, refresh_sent, pushed, written,
                   pre_table>>
    /\ UNCHANGED cycle_aux
    /\ UNCHANGED create_vars
    /\ UNCHANGED store_vars

\* the expiry is extended from the row's stored expiry instead of reset
UpdateData_Extend ==
    [expires |-> CurrentSub.expires + SUBSCRIPTION_DURATION,
     last_updated |-> strftime(clock),
     oauth_token |-> new_oauth_token, refresh_token |-> new_refresh_token]

\* each row keeps the refresh token it already stores
UpdateData_KeepsRefresh ==
    [expires |-> new_expire, last_updated |-> strftime(clock),
     oauth_token |-> new_oauth_token, refresh_token |-> CurrentSub.refresh_token]

\* the update_data dict of the renewal
UpdateData ==
    [expires |-> new_expire, last_updated |-> strftime(clock),
     oauth_token |-> new_oauth_token, refresh_token |-> new_refresh_token]

\* update_table commits; the loops go on to the next row, the next domain, or
\* the cycle returns
UpdateTable ==
    /\ pc = "persist"
    /\ LET tbl == Upsert(table, CurrentSub.subscription_id, UpdateData)
       IN  /\ CommitAccepted(tbl)
           /\ table' = tbl
    /\ written' = written \cup {CurrentSub.subscription_id}
    /\ IF sub_idx < Len(expiring_subs)
       THEN /\ sub_idx' = sub_idx + 1
            /\ pc' = "push"
            /\ UNCHANGED <<dom_idx, running, loop>>
       ELSE IF dom_idx < Len(expiring_domain)
            THEN /\ dom_idx' = dom_idx + 1
                 /\ pc' = "read"
                 /\ UNCHANGED <<sub_idx, running, loop>>
            ELSE /\ Return
                 /\ UNCHANGED <<dom_idx, sub_idx>>
    /\ UNCHANGED <<clock, ticks, remote_expires, next_token, cycle_no,
                   renewal_threshold_str, subscriptions, expiring_domain,
                   new_expire, renewal_now, expiring_subs, new_oauth_token,
                   new_refresh_token, refresh_calls, refresh_sent, pushed,
                   pre_table, failed>>
    /\ call_log' = Append(call_log, [call |-> "write", domain |-> CurrentDomain,
                                      sub |-> CurrentSub.subscription_id])
    /\ UNCHANGED <<scan_now, pre_remote>>
    /\ UNCHANGED create_vars
    /\ UNCHANGED store_vars

\* the failed session is not rolled back: the token columns already flushed stay
UpdateTableRaises_NoRollback ==
    /\ pc = "persist"
    /\ table' = [table EXCEPT ![CurrentSub.subscription_id].oauth_token = new_oauth_token]
    /\ Raise("persist", CurrentDomain, CurrentSub.subscription_id)
    /\ UNCHANGED <<clock, ticks, remote_expires, next_token, cycle_no,
                   cycle_locals, refresh_calls, refresh_sent, pushed, written,
                   pre_table>>
    /\ UNCHANGED cycle_aux
    /\ UNCHANGED create_vars
    /\ UNCHANGED store_vars

\* the session raises (the query, or the commit's flush: a NULL in a
\* nullable=False column); get_session rolls back and raises HTTPException
UpdateTableRaises ==
    /\ pc = "persist"
    /\ Raise("persist", CurrentDomain, CurrentSub.subscription_id)
    /\ UNCHANGED <<clock, ticks, table, remote_expires, next_token, cycle_no,
                   cycle_locals, refresh_calls, refresh_sent, pushed, written,
                   pre_table>>
    /\ UNCHANGED cycle_aux
    /\ UNCHANGED create_vars
    /\ UNCHANGED store_vars

\* ------------------------------------------------- setup_new_subscription
\* the mapped columns of models.Subscriptions that the service writes (id and
\* created_at are filled in by the database)
Columns == {"subscription_id", "domain", "model", "expires", "post_url", "user",
            "oauth_token", "refresh_token", "last_updated"}

\* the declarative constructor Subscriptions(**data) raises TypeError for a
\* keyword that is no mapped attribute
ConstructorAccepts(data) == DOMAIN data \subseteq Columns

\* the value an instance holds in a column after construction from data, or
\* after setattr of every item of data on a stored row
ColumnValue(data, col, old) == IF col \in DOMAIN data THEN data[col] ELSE old

\* the row whose mapped columns are overwritten by the items of data; an item
\* under another name becomes a plain attribute of the instance and is not stored
Assign(row, data) == [col \in Columns |-> ColumnValue(data, col, row[col])]

EmptyRow == [col \in Columns |-> None]

\* the id the platform gives the subscription it creates for this request
NewSubscriptionId == NumSubs + requests

\* update_data of setup_new_subscription
CreateUpdateData ==
    [subscription_id |-> subscription_response.subscription_id,
     domain |-> request.domain,
     model |-> request.model,
     expires |-> subscription_response.expires_at,
     post_url |-> request.post_url,
     user |-> request.user,
     oauth_token |-> token_dict.access_token,
     renewal_token |-> token_dict.refresh_token,
     last_updated |-> strftime(clock)]

\* update_table(Subscriptions, {"subscription_id": sid}, data) of the creation
\* path: the rows matching the filter are updated, with none a new instance is
\* constructed and added; ok is FALSE when the constructor or the commit raises
CreateUpsert(tbl, sid, data) ==
    IF sid \in DOMAIN tbl
    THEN [ok |-> NotNullOk(Assign(tbl[sid], data)),
          tbl |-> [tbl EXCEPT ![sid] = Assign(tbl[sid], data)]]
    ELSE IF ConstructorAccepts(data) /\ NotNullOk(Assign(EmptyRow, data))
         THEN [ok |-> TRUE,
               tbl |-> [s \in DOMAIN tbl \cup {sid} |->
                          IF s = sid THEN Assign(EmptyRow, data) ELSE tbl[s]]]
         ELSE [ok |-> FALSE, tbl |-> tbl]

\* POST /create-subscription arrives and setup_new_subscription calls get_token
CreateRequest ==
    /\ create_pc \in {"none", "success", "err401", "err500"}
    /\ requests < MaxRequests
    /\ loop # "cancelled"
    /\ requests' = requests + 1
    /\ \E d \in Domains :
         request' = [domain |-> d, model |-> 1, post_url |-> 1, user |-> 1]
    /\ create_pc' = "get_token"
    /\ token_dict' = NoTokens
    /\ subscription_response' = NoResponse
    /\ create_calls' = <<"get_token">>
    /\ create_failed' = "none"
    /\ UNCHANGED <<remote_subs, confirmed_ids>>
    /\ UNCHANGED <<clock, ticks, table, remote_expires, next_token, loop, running,
                   cycle_no, pc, cycle_locals, cycle_log, cycle_aux>>
    /\ UNCHANGED store_vars

\* get_token returns a token pair; the access token is there, so
\* create_subscription is called with it
GetToken ==
    /\ create_pc = "get_token"
    /\ token_dict' = [access_token |-> next_token, refresh_token |-> next_token]
    /\ next_token' = next_token + 1
    /\ create_pc' = "create"
    /\ create_calls' = Append(create_calls, "create_subscription")
    /\ UNCHANGED <<requests, request, subscription_response, create_failed,
                   remote_subs, confirmed_ids>>
    /\ UNCHANGED <<clock, ticks, table, remote_expires, loop, running,
                   cycle_no, pc, cycle_locals, cycle_log, cycle_aux>>
    /\ UNCHANGED store_vars

\* get_token goes on to create_subscription although the grant was refused
GetTokenRaises_GoesOn ==
    /\ create_pc = "get_token"
    /\ create_pc' = "err401"
    /\ create_failed' = "get_token"
    /\ create_calls' = Append(create_calls, "create_subscription")
    /\ UNCHANGED <<requests, request, token_dict, subscription_response,
                   remote_subs, confirmed_ids>>
    /\ UNCHANGED <<clock, ticks, table, remote_expires, next_token, loop, running,
                   cycle_no, pc, cycle_locals, cycle_log, cycle_aux>>
    /\ UNCHANGED store_vars

\* get_token raises (a status other than 200, or a body without access_token):
\* HTTPException(401)
GetTokenRaises ==
    /\ create_pc = "get_token"
    /\ create_pc' = "err401"
    /\ create_failed' = "get_token"
    /\ UNCHANGED <<requests, request, token_dict, subscription_response,
                   create_calls, remote_subs, confirmed_ids>>
    /\ UNCHANGED <<clock, ticks, table, remote_expires, next_token, loop, running,
                   cycle_no, pc, cycle_locals, cycle_log, cycle_aux>>
    /\ UNCHANGED store_vars

\* the platform creates the subscription and answers 200/201; the body carries
\* "subscription_id" or not. With it update_table is called, without it the
\* request ends with HTTPException(500).
CreateSubscription ==
    /\ create_pc = "create"
    /\ remote_subs' = remote_subs \cup {NewSubscriptionId}
    /\ \E has_id \in BOOLEAN :
         IF has_id
         THEN /\ subscription_response' =
                    [subscription_id |-> NewSubscriptionId,
                     expires_at |-> strftime(plus_seconds(clock, SUBSCRIPTION_DURATION))]
              /\ confirmed_ids' = confirmed_ids \cup {NewSubscriptionId}
              /\ create_pc' = "upsert"
              /\ create_calls' = Append(create_calls, "update_table")
              /\ UNCHANGED create_failed
         ELSE /\ subscription_response' =
                    [subscription_id |-> None,
                     expires_at |-> strftime(plus_seconds(clock, SUBSCRIPTION_DURATION))]
              /\ create_pc' = "err500"
              /\ create_failed' = "no_subscription_id"
              /\ UNCHANGED <<confirmed_ids, create_calls>>
    /\ UNCHANGED <<requests, request, token_dict>>
    /\ UNCHANGED <<clock, ticks, table, remote_expires, next_token, loop, running,
                   cycle_no, pc, cycle_locals, cycle_log, cycle_aux>>
    /\ UNCHANGED store_vars

\* a failed creation that leaves a provisional row behind
CreateSubscriptionRaises_KeepsRow ==
    /\ create_pc = "create"
    /\ create_pc' = "err500"
    /\ create_failed' = "create_subscription"
    /\ table' = [s \in DOMAIN table \cup {NewSubscriptionId} |->
                   IF s \in DOMAIN table THEN table[s]
                   ELSE Assign(EmptyRow, [subscription_id |-> s,
                                           domain |-> request.domain])]
    /\ UNCHANGED <<requests, request, token_dict, subscription_response,
                   create_calls, remote_subs, confirmed_ids>>
    /\ UNCHANGED <<clock, ticks, remote_expires, next_token, loop, running,
                   cycle_no, pc, cycle_locals, cycle_log, cycle_aux>>
    /\ UNCHANGED store_vars

\* create_subscription raises (a status other than 200/201): HTTPException(500)
CreateSubscriptionRaises ==
    /\ create_pc = "create"
    /\ create_pc' = "err500"
    /\ create_failed' = "create_subscription"
    /\ UNCHANGED <<requests, request, token_dict, subscription_response,
                   create_calls, remote_subs, confirmed_ids>>
    /\ UNCHANGED <<clock, ticks, table, remote_expires, next_token, loop, running,
                   cycle_no, pc, cycle_locals, cycle_log, cycle_aux>>
    /\ UNCHANGED store_vars

\* update_table on a working store: the record is committed and the request
\* returns status success, or the constructor or the commit raises and
\* get_session turns that into HTTPException(500)
CreateUpdateTable ==
    /\ create_pc = "upsert"
    /\ LET res == CreateUpsert(table, subscription_response.subscription_id,
                               CreateUpdateData)
       IN  IF res.ok
           THEN /\ table' = res.tbl
                /\ create_pc' = "success"
                /\ UNCHANGED create_failed
           ELSE /\ table' = table
                /\ create_pc' = "err500"
                /\ create_failed' = "update_table"
    /\ UNCHANGED <<requests, request, token_dict, subscription_response,
                   create_calls, remote_subs, confirmed_ids>>
    /\ UNCHANGED <<clock, ticks, remote_expires, next_token, loop, running,
                   cycle_no, pc, cycle_locals, cycle_log, cycle_aux>>
    /\ UNCHANGED store_vars

\* the failed upsert is compensated by deleting the subscription on the platform
CreateUpdateTableRaises_Compensates ==
    /\ create_pc = "upsert"
    /\ create_pc' = "err500"
    /\ create_failed' = "store"
    /\ create_calls' = Append(create_calls, "ns_delete_subscription")
    /\ remote_subs' = remote_subs \ {subscription_response.subscription_id}
    /\ UNCHANGED <<requests, request, token_dict, subscription_response,
                   confirmed_ids>>
    /\ UNCHANGED <<clock, ticks, table, remote_expires, next_token, loop, running,
                   cycle_no, pc, cycle_locals, cycle_log, cycle_aux>>
    /\ UNCHANGED store_vars

\* the store itself fails (SQLAlchemyError in the select or the commit):
\* rollback and HTTPException(500)
CreateUpdateTableRaises ==
    /\ create_pc = "upsert"
    /\ create_pc' = "err500"
    /\ create_failed' = "store"
    /\ UNCHANGED <<requests, request, token_dict, subscription_response,
                   create_calls, remote_subs, confirmed_ids>>
    /\ UNCHANGED <<clock, ticks, table, remote_expires, next_token, loop, running,
                   cycle_no, pc, cycle_locals, cycle_log, cycle_aux>>
    /\ UNCHANGED store_vars

\* ------------------------------------------ db_utils.py, called on its own
\* the filters a caller passes: one subscription_id, stored or not, or a domain
StoreFilters ==
    {[subscription_id |-> s] : s \in 1..(NumSubs + 1)} \cup {[domain |-> d] : d \in Domains}

\* the update_data a caller passes: the renewal's four columns (the refresh
\* token possibly None), a complete row, the creation's dict with its
\* renewal_token, or a move to another domain
StoreUpdates ==
    {[expires |-> NewExpire(clock), last_updated |-> strftime(clock),
      oauth_token |-> next_token, refresh_token |-> r] : r \in {next_token, None}}
    \cup {[subscription_id |-> NumSubs + 1, domain |-> d, model |-> 1,
           expires |-> NewExpire(clock), post_url |-> 1, user |-> 1,
           oauth_token |-> next_token, refresh_token |-> next_token,
           last_updated |-> strftime(clock)] : d \in Domains}
    \cup {[subscription_id |-> NumSubs + 1, domain |-> 1, model |-> 1,
           expires |-> NewExpire(clock), post_url |-> 1, user |-> 1,
           oauth_token |-> next_token, renewal_token |-> next_token,
           last_updated |-> strftime(clock)]}
    \cup {[domain |-> d] : d \in Domains}

\* what goes wrong during a call: nothing, the block's query raises
\* SQLAlchemyError, the commit raises SQLAlchemyError, or the task is cancelled
\* while the block awaits
StoreFaults == {"none", "block", "commit", "cancel"}

\* the clock readings of the scheduled job: now, and a reading whose threshold
\* falls on a stored expiry, with a sub-second part
JobTimes ==
    {clock, plus_seconds(clock, 2 * RENEWAL_INTERVAL - TIME_BEFORE_EXPIRATION) + 600}

\* select(model).filter_by(**filters)
Matches(row, filters) == \A k \in DOMAIN filters : row[k] = filters[k]
Matching(tbl, filters) == {s \in DOMAIN tbl : Matches(tbl[s], filters)}

\* data = {**filters, **update_data}
Merge(filters, update_data) ==
    [k \in DOMAIN filters \cup DOMAIN update_data |->
        IF k \in DOMAIN update_data THEN update_data[k] ELSE filters[k]]

\* the flush of the session's rows is accepted: no NULL in a nullable=False
\* column, subscription_id unique
FlushAccepted(staged) ==
    /\ \A k \in DOMAIN staged :
         NotNullOk(staged[k]) /\ staged[k].subscription_id # None
    /\ \A k1, k2 \in DOMAIN staged :
         staged[k1].subscription_id = staged[k2].subscription_id => k1 = k2

\* the committed rows, by their subscription_id
Rekey(staged) ==
    [s \in {staged[k].subscription_id : k \in DOMAIN staged} |->
        staged[CHOOSE k \in DOMAIN staged : staged[k].subscription_id = s]]

\* a session that keeps what was flushed when the commit raises
GetSession_NoRollback(tbl, block, fault) ==
    IF block.raises = "CancelledError"
    THEN [tbl |-> tbl, raised |-> "CancelledError", status |-> 0,
          session |-> <<"close">>]
    ELSE IF block.raises # "none"
    THEN [tbl |-> tbl, raised |-> "HTTPException", status |-> 500,
          session |-> <<"rollback", "close">>]
    ELSE IF fault = "commit" \/ ~FlushAccepted(block.staged)
    THEN [tbl |-> IF FlushAccepted(block.staged) THEN Rekey(block.staged) ELSE tbl,
          raised |-> "HTTPException", status |-> 500,
          session |-> <<"commit", "rollback", "close">>]
    ELSE [tbl |-> Rekey(block.staged), raised |-> "none", status |-> 0,
          session |-> <<"commit", "close">>]

\* get_session around a block: commit after a block that ended normally;
\* rollback and HTTPException(500) after an Exception of the block or of the
\* commit; a CancelledError is no Exception and passes through; close always
GetSession(tbl, block, fault) ==
    IF block.raises = "CancelledError"
    THEN [tbl |-> tbl, raised |-> "CancelledError", status |-> 0,
          session |-> <<"close">>]
    ELSE IF block.raises # "none"
    THEN [tbl |-> tbl, raised |-> "HTTPException", status |-> 500,
          session |-> <<"rollback", "close">>]
    ELSE IF fault = "commit" \/ ~FlushAccepted(block.staged)
    THEN [tbl |-> tbl, raised |-> "HTTPException", status |-> 500,
          session |-> <<"commit", "rollback", "close">>]
    ELSE [tbl |-> Rekey(block.staged), raised |-> "none", status |-> 0,
          session |-> <<"commit", "close">>]

\* the handler "except SQLAlchemyError" around the session of update_table and
\* delete_from_table
ExceptSQLAlchemyError(res) ==
    IF res.raised = "SQLAlchemyError"
    THEN [res EXCEPT !.raised = "HTTPException", !.status = 500]
    ELSE res

\* a block that sets update_data on every row of the table
UpdateBlock_AllRows(tbl, filters, update_data, fault) ==
    IF fault = "block" THEN [staged |-> tbl, raises |-> "SQLAlchemyError"]
    ELSE IF fault = "cancel" THEN [staged |-> tbl, raises |-> "CancelledError"]
    ELSE IF Matching(tbl, filters) = {}
    THEN IF ConstructorAccepts(Merge(filters, update_data))
         THEN [staged |-> [k \in DOMAIN tbl \cup {None} |->
                             IF k = None
                             THEN Assign(EmptyRow, Merge(filters, update_data))
                             ELSE tbl[k]],
               raises |-> "none"]
         ELSE [staged |-> tbl, raises |-> "TypeError"]
    ELSE [staged |-> [k \in DOMAIN tbl |-> Assign(tbl[k], update_data)],
          raises |-> "none"]

\* the block of update_table: the matching rows get update_data's items set;
\* with no match an instance is constructed from filters and update_data and
\* added to the session
UpdateBlock(tbl, filters, update_data, fault) ==
    IF fault = "block" THEN [staged |-> tbl, raises |-> "SQLAlchemyError"]
    ELSE IF fault = "cancel" THEN [staged |-> tbl, raises |-> "CancelledError"]
    ELSE IF Matching(tbl, filters) = {}
    THEN IF ConstructorAccepts(Merge(filters, update_data))
         THEN [staged |-> [k \in DOMAIN tbl \cup {None} |->
                             IF k = None
                             THEN Assign(EmptyRow, Merge(filters, update_data))
                             ELSE tbl[k]],
               raises |-> "none"]
         ELSE [staged |-> tbl, raises |-> "TypeError"]
    ELSE [staged |-> [k \in DOMAIN tbl |->
                        IF k \in Matching(tbl, filters)
                        THEN Assign(tbl[k], update_data) ELSE tbl[k]],
          raises |-> "none"]

\* update_table(Subscriptions, filters, update_data)
UpdateTableResult(tbl, filters, update_data, fault) ==
    ExceptSQLAlchemyError(
        GetSession(tbl, UpdateBlock(tbl, filters, update_data, fault), fault))

\* the block of delete_from_table: HTTPException(404) with no match, else
\* every matching row is deleted
DeleteBlock(tbl, filters, fault) ==
    IF fault = "block" THEN [staged |-> tbl, raises |-> "SQLAlchemyError"]
    ELSE IF fault = "cancel" THEN [staged |-> tbl, raises |-> "CancelledError"]
    ELSE IF Matching(tbl, filters) = {}
    THEN [staged |-> tbl, raises |-> "HTTPException404"]
    ELSE [staged |-> [k \in DOMAIN tbl \ Matching(tbl, filters) |-> tbl[k]],
          raises |-> "none"]

\* delete_from_table(Subscriptions, filters)
DeleteResult(tbl, filters, fault) ==
    ExceptSQLAlchemyError(GetSession(tbl, DeleteBlock(tbl, filters, fault), fault))

\* scheduler.py: expiration_threshold as the string the query compares with
ExpirationThreshold(now) == strftime(plus_seconds(now, TIME_BEFORE_EXPIRATION))

\* the rows update_expiring_subscriptions selects
JobSelected(tbl, now) == {s \in DOMAIN tbl : tbl[s].expires <= ExpirationThreshold(now)}

\* the rows after the job's UPDATE statements
JobUpdated(tbl, now) ==
    [s \in DOMAIN tbl |->
        IF s \in JobSelected(tbl, now)
        THEN [tbl[s] EXCEPT !.last_updated = strftime(now)] ELSE tbl[s]]

\* a job whose statements are committed one by one: the first selected row
\* is already stored when a later step raises
JobBlock_CommitsEach(tbl, now, fault) ==
    IF fault = "cancel" THEN [staged |-> tbl, raises |-> "CancelledError", logged |-> FALSE]
    ELSE IF fault = "none"
    THEN [staged |-> JobUpdated(tbl, now), raises |-> "none", logged |-> FALSE]
    ELSE [staged |-> [s \in DOMAIN tbl |->
                        IF JobSelected(tbl, now) # {} /\ s = CHOOSE x \in JobSelected(tbl, now) : TRUE
                        THEN JobUpdated(tbl, now)[s] ELSE tbl[s]],
          raises |-> "none", logged |-> TRUE]

\* update_expiring_subscriptions(session) as the block of the job's session:
\* it commits its updates itself; an Exception of the query, of an UPDATE or
\* of the commit is logged and answered with a rollback, and does not leave
\* the function
JobBlock(tbl, now, fault) ==
    IF fault = "cancel" THEN [staged |-> tbl, raises |-> "CancelledError", logged |-> FALSE]
    ELSE IF fault = "none"
    THEN [staged |-> JobUpdated(tbl, now), raises |-> "none", logged |-> FALSE]
    ELSE [staged |-> tbl, raises |-> "none", logged |-> TRUE]

\* scheduler.check_and_update_subscriptions: the job inside get_session, whose
\* own commit finds nothing left to do
JobResult(tbl, now, fault) ==
    GetSession(tbl, JobBlock(tbl, now, fault), "none")

\* a caller awaits update_table
UpdateTableCall ==
    /\ db_op.kind = "none"
    /\ \E filters \in StoreFilters, update_data \in StoreUpdates, fault \in StoreFaults :
         LET res == UpdateTableResult(table, filters, update_data, fault)
         IN  /\ db_op' = [kind |-> "update_table", filters |-> filters,
                          update_data |-> update_data, fault |-> fault]
             /\ table' = res.tbl
             /\ db_result' = [status |-> res.status, raised |-> res.raised,
                              session |-> res.session, logged |-> FALSE]
    /\ db_pre' = table
    /\ UNCHANGED <<clock, ticks, remote_expires, next_token, loop, running,
                   cycle_no, pc, cycle_locals, cycle_log, cycle_aux, create_vars>>

\* a caller awaits delete_from_table
DeleteFromTable ==
    /\ db_op.kind = "none"
    /\ \E filters \in StoreFilters, fault \in StoreFaults :
         LET res == DeleteResult(table, filters, fault)
         IN  /\ db_op' = [kind |-> "delete_from_table", filters |-> filters,
                          fault |-> fault]
             /\ table' = res.tbl
             /\ db_result' = [status |-> res.status, raised |-> res.raised,
                              session |-> res.session, logged |-> FALSE]
    /\ db_pre' = table
    /\ UNCHANGED <<clock, ticks, remote_expires, next_token, loop, running,
                   cycle_no, pc, cycle_locals, cycle_log, cycle_aux, create_vars>>

\* the scheduler runs its job check_and_update_subscriptions
SchedulerJob ==
    /\ db_op.kind = "none"
    /\ \E now \in JobTimes, fault \in StoreFaults :
         LET res == JobResult(table, now, fault)
         IN  /\ clock' = now
             /\ db_op' = [kind |-> "job", now |-> now, fault |-> fault]
             /\ table' = res.tbl
             /\ db_result' = [status |-> res.status, raised |-> res.raised,
                              session |-> res.session,
                              logged |-> JobBlock(table, now, fault).logged]
    /\ db_pre' = table
    /\ UNCHANGED <<ticks, remote_expires, next_token, loop, running,
                   cycle_no, pc, cycle_locals, cycle_log, cycle_aux, create_vars>>

\* the persistence helpers and the scheduled job
StoreNext ==
    \/ UpdateTableCall
    \/ DeleteFromTable
    \/ SchedulerJob

\* the renewal loop: start, its cycles and lifespan's shutdown
RenewalNext ==
    \/ Start
    \/ SetupTable
    \/ SetupTableRaises
    \/ Sleep
    \/ Tick
    \/ Shutdown
    \/ FetchExpiring
    \/ FetchExpiringRaises
    \/ ReadDomain
    \/ ReadDomainRaises
    \/ RefreshToken
    \/ RefreshTokenRaises
    \/ UpdateSubscription
    \/ UpdateSubscriptionRaises
    \/ UpdateTable
    \/ UpdateTableRaises

\* the endpoint POST /create-subscription
CreationNext ==
    \/ CreateRequest
    \/ GetToken
    \/ GetTokenRaises
    \/ CreateSubscription
    \/ CreateSubscriptionRaises
    \/ CreateUpdateTable
    \/ CreateUpdateTableRaises

Next == RenewalNext \/ CreationNext

\* the whole service: creation requests are served while the loop runs
Spec == Init /\ [][Next]_vars

\* the renewal loop with no creation request arriving
SpecRenewal == Init /\ [][RenewalNext]_vars

\* the creation requests of a service whose renewal task has not run yet
SpecCreation == Init /\ [][CreationNext]_vars

\* one call of a persistence helper, or one run of the scheduled job, on a
\* store no one else is writing to
SpecStore == Init /\ [][StoreNext]_vars

\* ================================================================ properties
Range(seq) == {seq[i] : i \in 1..Len(seq)}

SubsOfDomain(d) == {s \in DOMAIN table : table[s].domain = d}

PushedSubs == {p.sub : p \in pushed}

\* the credential triple of a row
Triple(row) == <<row.oauth_token, row.refresh_token, row.expires>>

\* C1: when refresh_access_token, update_subscription or update_table raises
\* while one domain is renewed, every other candidate domain of the cycle is
\* still renewed in that cycle (its rows are read and its token refresh called).
C1_PerDomainIsolation ==
    (pc = "raised" /\ failed.step \in {"refresh", "push", "persist"})
        => \A d \in Range(expiring_domain) \ {failed.domain} : refresh_calls[d] >= 1

\* C2: an error raised during a renewal cycle never terminates the loop of
\* start: after a cycle that raised, start is still alive to sleep and run the
\* next cycle.
C2_LoopSurvivesFailure == pc = "raised" => loop # "crashed"

\* C3: when a cycle is over (and every read of a domain's rows it made
\* succeeded), refresh_access_token has been called exactly once for every
\* domain that had a candidate.
C3_OneRefreshPerDomain ==
    (pc \in {"idle", "raised"} /\ cycle_no >= 1 /\ failed.step # "read")
        => \A d \in Range(expiring_domain) : refresh_calls[d] = 1

\* C4: if refresh_access_token fails for a domain, then in that cycle no
\* update_subscription is accepted and no update_table committed for any
\* subscription of the domain, and the credential triple of each of its rows is
\* what it was when the cycle began.
C4_RefreshFailureWritesNothing ==
    failed.step = "refresh"
        => \A s \in SubsOfDomain(failed.domain) :
              /\ s \notin PushedSubs
              /\ s \notin written
              /\ Triple(table[s]) = Triple(pre_table[s])

\* C4 witness: the second domain's refresh fails after the first domain was
\* renewed
C4_Witness ==
    /\ pc = "raised"
    /\ failed.step = "refresh"
    /\ written # {}
    /\ SubsOfDomain(failed.domain) # {}

\* C5: if update_subscription fails for one subscription, its row is unchanged
\* and every sibling of its domain, before or after it in iteration order, is
\* still pushed.
C5_PushFailureSkipsOnlyThatSub ==
    (pc = "raised" /\ failed.step = "push")
        => /\ Triple(table[failed.sub]) = Triple(pre_table[failed.sub])
           /\ \A i \in 1..Len(expiring_subs) :
                 expiring_subs[i].subscription_id # failed.sub
                    => expiring_subs[i].subscription_id \in PushedSubs

\* C6: at most one check_and_update_subscriptions is in flight at any time.
C6_AtMostOneCycle == running <= 1

\* C6 witness: a cycle still in flight when a whole renewal interval has passed
\* since it began
C6_Witness ==
    /\ InFlight
    /\ running = 1
    /\ strftime(clock) >= renewal_threshold_str

\* C7: no row the cycle has written holds an expires earlier than the one it
\* held when the cycle began.
C7_ExpiresNeverMovesBack ==
    \A s \in written : table[s].expires >= pre_table[s].expires

\* C8: for every row renewed in the cycle, the expiry the platform accepted and
\* the expiry stored are the same value, the cycle's clock reading (at second
\* precision) plus SUBSCRIPTION_DURATION.
C8_PushedEqualsPersisted ==
    \A s \in written :
        /\ \E p \in pushed : p.sub = s /\ p.expires = table[s].expires
        /\ \A p \in pushed : p.sub = s => p.expires = table[s].expires
        /\ table[s].expires = strftime(renewal_now) + SUBSCRIPTION_DURATION

\* C8 witness: a row renewed whose earlier expiry was another one, with time
\* having passed since the cycle read the clock
C8_Witness ==
    \E s \in written :
        /\ pre_table[s].expires # table[s].expires
        /\ pre_table[s].expires > 0
        /\ clock > renewal_now

\* C9: while a domain's token refresh is requested, all rows loaded for the
\* domain hold one and the same refresh_token.
C9_RefreshOnlyOnSharedToken ==
    pc = "refresh"
        => \A i, j \in 1..Len(expiring_subs) :
              expiring_subs[i].refresh_token = expiring_subs[j].refresh_token

\* C10: every step that changes oauth_token, refresh_token or expires of a row
\* sets all three to the renewal's new values; a failed or cancelled write
\* changes none.
C10_TripleWrittenTogether ==
    [][\A s \in DOMAIN table :
          Triple(table'[s]) # Triple(table[s])
             => /\ pc = "persist"
                /\ table'[s].oauth_token = new_oauth_token
                /\ table'[s].refresh_token = new_refresh_token
                /\ table'[s].expires = new_expire
                /\ s \in written']_vars

\* C10 witness: one row of a domain committed, the next row's write failed
C10_Witness ==
    /\ pc = "raised"
    /\ failed.step = "persist"
    /\ written # {}
    /\ failed.sub \notin written

\* the calls of one kind the cycle has made for a domain and subscription
CountCalls(kind, d, sid) ==
    Cardinality({i \in 1..Len(call_log) :
                    call_log[i] = [call |-> kind, domain |-> d, sub |-> sid]})

\* the columns the renewal has no business with
Identity(row) == <<row.subscription_id, row.domain, row.model, row.post_url, row.user>>

\* C11: a domain whose token refresh failed is attempted again in the next
\* scheduled cycle: after the failing cycle start can still sleep and begin the
\* next cycle.
C11_RefreshFailureRetried ==
    (pc = "raised" /\ failed.step = "refresh" /\ cycle_no < MaxCycles)
        => ENABLED Sleep

\* C12: the scan returns exactly the stored subscriptions whose expires is at or
\* before the clock reading plus the lead window (RENEWAL_INTERVAL) and changes
\* neither the store nor the platform; with a lead window of 5 minutes a row
\* expiring in 2 minutes is selected and one expiring in 10 minutes is not.
C12_ScanSelectsWithinWindow ==
    [][/\ (pc = "fetch" /\ pc' \in {"read", "idle"})
            => /\ subscriptions' =
                    {s \in DOMAIN table :
                        table[s].expires * 1000 <= scan_now + RENEWAL_INTERVAL * 1000}
               /\ table' = table
               /\ remote_expires' = remote_expires
               /\ next_token' = next_token
       /\ ExpiringSubscriptions(
              [x \in {1, 2} |->
                  Row(x, 1, strftime(plus_seconds(clock, IF x = 1 THEN 120 ELSE 600)), 1)],
              strftime(plus_seconds(clock, 300))) = {1}]_vars

\* C12 witness: a scan that selected a row expiring exactly at the threshold and
\* left another row out
C12_Witness ==
    /\ pc = "read"
    /\ \E s \in subscriptions : table[s].expires = renewal_threshold_str
    /\ \E s \in DOMAIN table : s \notin subscriptions

\* C13: a cycle whose scan found no candidate has made no remote call and no
\* store write: the store and the platform's expiries are as they were when the
\* cycle began.
C13_NoCandidatesNoEffect ==
    (pc = "idle" /\ cycle_no >= 1 /\ subscriptions = {})
        => /\ call_log = <<>>
           /\ \A d \in Domains : refresh_calls[d] = 0
           /\ pushed = {}
           /\ written = {}
           /\ table = pre_table
           /\ remote_expires = pre_remote

\* C13 witness: a cycle over whose scan found nothing, every stored expiry being
\* beyond the window
C13_Witness ==
    /\ pc = "idle"
    /\ cycle_no >= 1
    /\ subscriptions = {}
    /\ \A s \in DOMAIN table : table[s].expires > renewal_threshold_str

\* C14: a cycle cancelled by the shutdown while it renews a domain (one of the
\* domain's rows already pushed) has finished that domain: all its rows are
\* written.
C14_ShutdownFinishesDomain ==
    (pc = "cancelled"
        /\ \E i \in 1..Len(expiring_subs) : expiring_subs[i].subscription_id \in PushedSubs)
        => \A i \in 1..Len(expiring_subs) : expiring_subs[i].subscription_id \in written

\* C15: no step adds or removes a row, nor changes a row's subscription_id,
\* domain, model, post_url or user.
C15_RenewalKeepsIdentity ==
    [][/\ DOMAIN table' = DOMAIN table
       /\ \A s \in DOMAIN table : Identity(table'[s]) = Identity(table[s])]_vars

\* C15 witness: a cycle that committed a row and then failed at a push
C15_Witness ==
    /\ pc = "raised"
    /\ failed.step = "push"
    /\ written # {}
    /\ \E s \in written : table[s] # pre_table[s]

\* C20: when a cycle has returned normally, every candidate domain had exactly
\* one refresh_access_token call, and each of its stored subscriptions,
\* candidate or not, exactly one accepted update_subscription and one committed
\* update_table, all pushes of the domain carrying the one access token the
\* refresh returned (the one now stored); no other domain was touched.
C20_WholeDomainRenewedOnce ==
    (pc = "idle" /\ cycle_no >= 1)
        => /\ \A d \in Range(expiring_domain) :
                /\ CountCalls("refresh", d, 0) = 1
                /\ refresh_calls[d] = 1
                /\ \A s \in SubsOfDomain(d) :
                      /\ CountCalls("push", d, s) = 1
                      /\ CountCalls("write", d, s) = 1
                      /\ s \in written
                      /\ \A p \in pushed :
                            p.sub = s => /\ p.token = table[s].oauth_token
                                         /\ p.token > NumDomains + NumSubs
                /\ \A s, t \in SubsOfDomain(d) : table[s].oauth_token = table[t].oauth_token
           /\ \A i \in 1..Len(call_log) : call_log[i].domain \in Range(expiring_domain)
           /\ Len(call_log) =
                 Cardinality(Range(expiring_domain))
                    + 2 * Cardinality({s \in DOMAIN table : table[s].domain \in Range(expiring_domain)})

\* C20 witness: a cycle returned after renewing a domain of two subscriptions of
\* which only one was a candidate
C20_Witness ==
    /\ pc = "idle"
    /\ cycle_no >= 1
    /\ \E d \in Range(expiring_domain) :
          /\ Cardinality(SubsOfDomain(d)) >= 2
          /\ \E s \in SubsOfDomain(d) : s \notin subscriptions

\* ------------------------------------------------------ creation requests
\* C16: the creation of a new subscription whose password grant and remote
\* creation succeeded, served by a store that works, returns status success,
\* and the store then holds the record keyed by the returned subscription_id
\* with the request's domain, model, post_url and user, the expiry the platform
\* reported and the access and refresh token of the grant.
C16_CreationStoresRecord ==
    /\ ~(create_pc = "err500" /\ create_failed = "update_table")
    /\ create_pc = "success" =>
         /\ subscription_response.subscription_id \in DOMAIN table
         /\ table[subscription_response.subscription_id] =
              [subscription_id |-> subscription_response.subscription_id,
               domain |-> request.domain,
               model |-> request.model,
               expires |-> subscription_response.expires_at,
               post_url |-> request.post_url,
               user |-> request.user,
               oauth_token |-> token_dict.access_token,
               refresh_token |-> token_dict.refresh_token,
               last_updated |-> table[subscription_response.subscription_id].last_updated]

\* C17: creation stops at the first failing step and writes nothing locally.
\* After a failed get_token the request has ended with 401 and get_token is the
\* only call it made; after a failed create_subscription, or a response without
\* subscription_id, it has ended with a failure, update_table was not called
\* and the store holds no row for the new subscription.
C17_CreationStopsAtFirstFailure ==
    /\ create_failed = "get_token" =>
         /\ create_pc = "err401"
         /\ create_calls = <<"get_token">>
         /\ NewSubscriptionId \notin DOMAIN table
    /\ create_failed \in {"create_subscription", "no_subscription_id"} =>
         /\ create_pc = "err500"
         /\ create_calls = <<"get_token", "create_subscription">>
         /\ NewSubscriptionId \notin DOMAIN table

\* the platform created the subscription but its answer carried no
\* subscription_id
C17_Witness ==
    /\ create_pc = "err500"
    /\ create_failed = "no_subscription_id"
    /\ NewSubscriptionId \in remote_subs
    /\ token_dict.access_token # None

\* C18: every row of the store has a subscription_id that an earlier
\* successful create_subscription call returned.
C18_RowsAreConfirmed == DOMAIN table \subseteq confirmed_ids

\* a creation request has failed after the platform created its subscription,
\* and a renewal cycle has committed rows
C18_Witness ==
    /\ create_pc = "err500"
    /\ confirmed_ids # remote_subs
    /\ written # {}
    /\ \E s \in written : table[s] # pre_table[s]

\* C19: when create_subscription succeeded and the upsert failed, the request
\* has ended with a failure, the store holds no row for the new
\* subscription_id, the subscription still exists on the platform, and the
\* creation path has called no ns_delete_subscription.
C19_UpsertFailureLeavesOrphan ==
    /\ "ns_delete_subscription" \notin Range(create_calls)
    /\ create_failed \in {"update_table", "store"} =>
         /\ create_pc = "err500"
         /\ subscription_response.subscription_id \in confirmed_ids
         /\ subscription_response.subscription_id \notin DOMAIN table
         /\ subscription_response.subscription_id \in remote_subs

\* the store failed under the upsert of a subscription the platform confirmed
C19_Witness ==
    /\ create_pc = "err500"
    /\ create_failed = "store"
    /\ create_calls = <<"get_token", "create_subscription", "update_table">>
    /\ subscription_response.subscription_id \in remote_subs \ DOMAIN table

\* ---------------------------------------------------- loop and its lifetime
\* C21: a cycle is started only by start: the first one right after
\* setup_table, with no sleep before it, every later one at the end of a sleep
\* of renewal_interval seconds; once lifespan has cancelled the task no cycle
\* is started.
C21_CyclesFollowLifetime ==
    [][cycle_no' # cycle_no =>
         /\ cycle_no' = cycle_no + 1
         /\ loop # "cancelled"
         /\ loop' = "cycle"
         /\ pc' = "fetch"
         /\ \/ loop = "setup" /\ cycle_no = 0 /\ clock' = clock
            \/ loop = "sleep" /\ cycle_no >= 1
                 /\ clock' = clock + RENEWAL_INTERVAL * 1000]_vars

\* the service was shut down while the loop slept after its second cycle
C21_Witness ==
    /\ loop = "cancelled"
    /\ cycle_no = MaxCycles
    /\ pc = "idle"
    /\ cycle_no >= 2

\* C22: a row is written only after the platform accepted update_subscription
\* for it in the same cycle, so a row's stored expires is never later than the
\* expiry the platform holds for it; after a persist that failed the platform
\* keeps the new expiry.
C22_PushBeforePersist ==
    /\ written \subseteq PushedSubs
    /\ \A s \in DOMAIN table : table[s].expires <= remote_expires[s]
    /\ (pc = "raised" /\ failed.step = "persist") => remote_expires[failed.sub] = new_expire

\* C23: when refresh_access_token returned a new refresh token for a domain
\* and the cycle then ended by an error in a push or a persist of that domain,
\* some row of the domain holds the new refresh token.
C23_RefreshTokenNotLost ==
    (pc = "raised" /\ failed.step \in {"push", "persist"} /\ new_refresh_token # None)
        => \E s \in SubsOfDomain(failed.domain) : table[s].refresh_token = new_refresh_token

\* the domains of this cycle whose refresh, pushes and persists all succeeded
RenewedDomains ==
    {expiring_domain[i] : i \in {j \in 1..Len(expiring_domain) :
                                    j < dom_idx \/ (pc = "idle" /\ j <= dom_idx)}}

\* C24: after a domain's refresh, all its pushes and all its persists
\* succeeded in a cycle, every row of the domain holds the same oauth_token,
\* the same refresh_token and the same expires.
C24_CredentialsConverge ==
    cycle_no >= 1 =>
        \A d \in RenewedDomains : \A s1, s2 \in SubsOfDomain(d) :
            Triple(table[s1]) = Triple(table[s2])

\* two rows of a renewed domain that held different token pairs before the cycle
C24_Witness ==
    /\ cycle_no >= 1
    /\ \E d \in RenewedDomains : \E s1, s2 \in SubsOfDomain(d) :
         /\ pre_table[s1].refresh_token # pre_table[s2].refresh_token
         /\ pre_table[s1].expires # pre_table[s2].expires
         /\ Triple(table[s1]) = Triple(table[s2])

\* C25: a refresh response without access_token ends the cycle with an
\* exception before any update_subscription or update_table call of the
\* domain: no row of the domain and no expiry the platform holds for it changed.
C25_NoAccessTokenIsFailure ==
    failed.step = "no_access_token" =>
        /\ pc = "raised"
        /\ CountCalls("refresh", failed.domain, 0) = 1
        /\ \A s \in SubsOfDomain(failed.domain) :
             /\ CountCalls("push", failed.domain, s) = 0
             /\ CountCalls("write", failed.domain, s) = 0
             /\ table[s] = pre_table[s]
             /\ remote_expires[s] = pre_remote[s]

\* the second domain's refresh came without access_token after the first
\* domain was renewed
C25_Witness ==
    /\ pc = "raised"
    /\ failed.step = "no_access_token"
    /\ written # {}
    /\ \E s \in written : table[s] # pre_table[s]

\* ------------------------------------------- persistence helpers, the job
\* the rows a call matched in the table it found
Matched == Matching(db_pre, db_op.filters)

\* the rows of a table
Rows(tbl) == {tbl[s] : s \in DOMAIN tbl}

\* C26: delete_from_table with filters that match no row fails, as its caller
\* sees it, with status 404 and leaves the table unchanged; with filters that
\* match rows it removes exactly the matching rows.
C26_DeleteReports404 ==
    (db_op.kind = "delete_from_table" /\ db_op.fault = "none") =>
        IF Matched = {}
        THEN /\ db_result.raised = "HTTPException"
             /\ db_result.status = 404
             /\ table = db_pre
        ELSE /\ db_result.raised = "none"
             /\ DOMAIN table = DOMAIN db_pre \ Matched
             /\ \A s \in DOMAIN table : table[s] = db_pre[s]

\* the rows the job had to update: expires at or before now + TIME_BEFORE_EXPIRATION
JobDue ==
    {s \in DOMAIN db_pre :
        db_pre[s].expires * 1000 <= db_op.now + TIME_BEFORE_EXPIRATION * 1000}

\* C27: a run of the scheduled job changes nothing but last_updated, and only
\* of rows whose expires is at or before now + TIME_BEFORE_EXPIRATION; it
\* updates all of them or, when a step raised, none, with the error logged and
\* no exception reaching the scheduler.
C27_JobTouchesOnlyLastUpdated ==
    db_op.kind = "job" =>
        /\ DOMAIN table = DOMAIN db_pre
        /\ \A s \in DOMAIN table :
             /\ [table[s] EXCEPT !.last_updated = db_pre[s].last_updated] = db_pre[s]
             /\ table[s] # db_pre[s] => s \in JobDue
        /\ \/ table = db_pre
           \/ \A s \in JobDue : table[s].last_updated = strftime(db_op.now)
        /\ db_op.fault = "none" =>
             /\ \A s \in JobDue : table[s].last_updated = strftime(db_op.now)
             /\ db_result.raised = "none"
             /\ ~db_result.logged
        /\ db_op.fault \in {"block", "commit"} =>
             /\ table = db_pre
             /\ db_result.logged
             /\ db_result.raised = "none"

\* a run that updated a row expiring exactly at the threshold and left a
\* later one alone
C27_Witness ==
    /\ db_op.kind = "job"
    /\ db_op.fault = "none"
    /\ db_op.now % 1000 # 0
    /\ \E s \in DOMAIN table :
         /\ db_pre[s].expires = ExpirationThreshold(db_op.now)
         /\ table[s].last_updated # db_pre[s].last_updated
    /\ \E s \in DOMAIN table : s \notin JobDue /\ table[s] = db_pre[s]

\* the rows the call is to leave behind: update_data set on the matching
\* rows, or one new row next to the stored ones
UpsertRows ==
    IF Matched = {}
    THEN Rows(db_pre) \cup {Assign(EmptyRow, Merge(db_op.filters, db_op.update_data))}
    ELSE {Assign(db_pre[s], db_op.update_data) : s \in Matched}
         \cup {db_pre[s] : s \in DOMAIN db_pre \ Matched}

\* the table holds the rows the call is to leave behind: every matching row
\* and no other updated and none added, or exactly one row added
UpsertDone ==
    /\ Rows(table) = UpsertRows
    /\ Cardinality(DOMAIN table) =
         Cardinality(DOMAIN db_pre) + (IF Matched = {} THEN 1 ELSE 0)
    /\ \A s \in DOMAIN db_pre \ Matched : s \in DOMAIN table /\ table[s] = db_pre[s]
    /\ db_result.raised = "none"

\* the schema admits the rows the call is to leave behind: a new row is built
\* from mapped columns only, no nullable=False column is None, and the
\* subscription_ids stay unique
UpsertAdmitted ==
    /\ Matched = {} => DOMAIN Merge(db_op.filters, db_op.update_data) \subseteq Columns
    /\ \A r \in UpsertRows : NotNullOk(r) /\ r.subscription_id # None
    /\ Cardinality({r.subscription_id : r \in UpsertRows}) =
         Cardinality(DOMAIN db_pre) + (IF Matched = {} THEN 1 ELSE 0)

\* the same call made once more changes nothing
UpsertIdempotent ==
    UpdateTableResult(table, db_op.filters, db_op.update_data, "none").tbl = table

\* C28 as stated: update_table sets update_data on every matching row and no
\* other and adds none; with no match it inserts exactly one row built from
\* filters and update_data; the same call applied twice leaves the table as
\* applied once.
C28_UpsertAsStated ==
    (db_op.kind = "update_table" /\ db_op.fault = "none") =>
        UpsertDone /\ UpsertIdempotent

\* C28, amended: update_table does so whenever the schema admits the
\* resulting rows; otherwise it raises HTTPException(500) and leaves the table
\* unchanged; in both cases the same call applied twice leaves the table as
\* applied once.
C28_UpsertWhenSchemaAdmits ==
    (db_op.kind = "update_table" /\ db_op.fault = "none") =>
        /\ IF UpsertAdmitted
           THEN UpsertDone
           ELSE /\ table = db_pre
                /\ db_result.raised = "HTTPException"
                /\ db_result.status = 500
        /\ UpsertIdempotent

\* a call that matched no row and inserted one
C28_Witness ==
    /\ db_op.kind = "update_table"
    /\ db_op.fault = "none"
    /\ Matched = {}
    /\ db_result.raised = "none"
    /\ Cardinality(DOMAIN table) = Cardinality(DOMAIN db_pre) + 1

\* C29: get_session commits when its block ended normally; when the block or
\* the commit raised it rolls back, nothing of the block is stored, and the
\* caller gets HTTPException(500); the session is closed on every path.
C29_SessionCommitsOrRollsBack ==
    db_op.kind # "none" =>
        /\ db_result.session # <<>>
        /\ db_result.session[Len(db_result.session)] = "close"
        /\ Cardinality({i \in 1..Len(db_result.session) : db_result.session[i] = "close"}) = 1
        /\ db_result.raised = "none" => db_result.session = <<"commit", "close">>
        /\ db_result.raised = "HTTPException" =>
             /\ db_result.status = 500
             /\ table = db_pre
             /\ db_result.session \in {<<"rollback", "close">>,
                                       <<"commit", "rollback", "close">>}
        /\ (db_op.kind \in {"update_table", "delete_from_table"}
              /\ db_op.fault \in {"block", "commit"}) =>
             /\ db_result.raised = "HTTPException"
             /\ table = db_pre
             /\ db_result.session =
                  IF db_op.fault = "block" THEN <<"rollback", "close">>
                  ELSE IF Matched = {} /\ db_op.kind = "delete_from_table"
                       THEN <<"rollback", "close">>
                       ELSE IF db_op.kind = "update_table" /\ Matched = {}
                               /\ ~(DOMAIN Merge(db_op.filters, db_op.update_data) \subseteq Columns)
                            THEN <<"rollback", "close">>
                            ELSE <<"commit", "rollback", "close">>
        /\ (db_op.kind = "delete_from_table" /\ db_op.fault = "none" /\ Matched = {}) =>
             /\ db_result.raised = "HTTPException"
             /\ db_result.session = <<"rollback", "close">>
        /\ db_op.fault = "cancel" => table = db_pre

\* the commit raised after the block had changed matching rows
C29_Witness ==
    /\ db_op.kind = "update_table"
    /\ db_op.fault = "commit"
    /\ Matched # {}
    /\ \E s \in Matched : Assign(db_pre[s], db_op.update_data) # db_pre[s]
    /\ db_result.session = <<"commit", "rollback", "close">>
    /\ table = db_pre

====
